---- MODULE Spec2Model ----
(***************************************************************************)
(* git-clone-cache: the populator (populate_git_clone_cache.py) and the    *)
(* discoverer (find_and_populate_git_clone_cache.py) as state machines     *)
(* over a small file system, a cache root and an external git binary whose *)
(* commands succeed or fail nondeterministically.                          *)
(***************************************************************************)
EXTENDS Naturals, Sequences, FiniteSets, TLC

\* Longest argument list given to one populate run.
MaxArgs == 2

\* Python's None (a failed lookup, a missing return value).
None == "None"

----------------------------------------------------------------------------
(* The file system the arguments are resolved against.  A path is the      *)
(* tuple of its components below the directory /w.                          *)

U1 == "https://example.com/repo.git"
U2 == "https://example.com/other.git"

\* Every path of the model's file system.
AllPaths ==
  { <<>>,
    <<"a">>, <<"a", ".git">>,
    <<"a", ".git", "m">>, <<"a", ".git", "m", ".git">>,
    <<"d">>, <<"d", "b">>, <<"d", "b", ".git">>,
    <<"n">>, <<"n", ".git">>,
    <<"node_modules">>, <<"node_modules", "p">>, <<"node_modules", "p", ".git">>,
    <<"lnk">>, <<"lnk", ".git">>,
    <<"f">> }

\* The paths that are regular files; every other path is a directory.
Files == { <<"f">> }

\* The directory entries that are symbolic links to a directory.
SymLinks == { <<"lnk">> }

\* str(path): the absolute path string of a path tuple.
Str(p) ==
  CASE p = <<>> -> "/w"
    [] p = <<"a">> -> "/w/a"
    [] p = <<"a", ".git", "m">> -> "/w/a/.git/m"
    [] p = <<"d">> -> "/w/d"
    [] p = <<"d", "b">> -> "/w/d/b"
    [] p = <<"n">> -> "/w/n"
    [] p = <<"node_modules">> -> "/w/node_modules"
    [] p = <<"node_modules", "p">> -> "/w/node_modules/p"
    [] p = <<"lnk">> -> "/w/lnk"
    [] p = <<"f">> -> "/w/f"
    [] p = <<"a", ".git">> -> "/w/a/.git"
    [] p = <<"node_modules">> -> "/w/node_modules"
    [] OTHER -> "/w/?"

\* Path(arg): the path an argument string names.  A URL is parsed like any
\* other string: "https://example.com/repo.git" is the relative path
\* https:/example.com/repo.git.
PathOf(arg) ==
  CASE arg = "/w" -> <<>>
    [] arg = "/w/a" -> <<"a">>
    [] arg = "/w/a/.git/m" -> <<"a", ".git", "m">>
    [] arg = "/w/d" -> <<"d">>
    [] arg = "/w/d/b" -> <<"d", "b">>
    [] arg = "/w/n" -> <<"n">>
    [] arg = "/w/node_modules" -> <<"node_modules">>
    [] arg = "/w/node_modules/p" -> <<"node_modules", "p">>
    [] arg = "/w/lnk" -> <<"lnk">>
    [] arg = "/w/f" -> <<"f">>
    [] arg = "/w/gone" -> <<"gone">>
    [] arg = U1 -> <<"https:", "example.com", "repo.git">>
    [] arg = U2 -> <<"https:", "example.com", "other.git">>
    [] OTHER -> <<"?">>

\* The arguments a populate run is given: working copies, a working copy
\* without origin, a plain directory, a regular file, a missing path, a URL.
Refs == { "/w/a", "/w/n", "/w/d", "/w/f", "/w/gone", U1 }

\* Whether an argument string is a repository URL rather than a file path.
IsUrlString(arg) == arg \in {U1, U2}

\* remote.origin.url of each working copy (git config), None when unset.
OriginConfig(p) ==
  CASE p = <<"a">> -> U1
    [] p = <<"d", "b">> -> U2
    [] p = <<"a", ".git", "m">> -> U2
    [] p = <<"node_modules", "p">> -> U2
    [] p = <<"lnk">> -> U2
    [] OTHER -> None

\* shutil.which("git") answers: nothing, the real binary, or the wrapper.
RealGitPath == "/usr/bin/git"
WrapperPath == "out/git"
WhichAnswers == { None, RealGitPath, WrapperPath }

WriteOutcomes == { "ok", "open_failed", "dump_failed" }

\* What the environment does to one populate_cache call: the exit status of
\* the clone or fetch, of the set-url, and the fate of the index write.
Outcomes == [ vcs : BOOLEAN, seturl : BOOLEAN, write : WriteOutcomes ]

\* The environment of one run: what which("git") finds, whether it is
\* executable, whether the cache root can be created.
Envs == [ which : WhichAnswers, xok : BOOLEAN, mkdirOk : BOOLEAN ]

\* What a run found at start-up: the git binary it resolved, whether that
\* binary is executable, whether creating the cache root raised.
RunEnv(e, dirExists) ==
  [ real_git |-> IF e.which # None /\ e.which # WrapperPath
                   THEN e.which ELSE None,
    xok |-> e.xok /\ e.which = RealGitPath,
    mkdirFailed |-> ~dirExists /\ ~e.mkdirOk ]

\* The environment of a process that is not running.
NoEnv == [ real_git |-> None, xok |-> FALSE, mkdirFailed |-> FALSE ]

RECURSIVE SeqsOfLen(_, _)
SeqsOfLen(S, n) ==
  IF n = 0 THEN { << >> }
  ELSE { Append(s, x) : s \in SeqsOfLen(S, n - 1), x \in S }

\* Every argument list of at most MaxArgs arguments.
ArgLists == UNION { SeqsOfLen(Refs, n) : n \in 0..MaxArgs }

EmptyMap == [ u \in {} |-> None ]

\* The populate processes that run concurrently on one cache root.
Procs == { 1, 2 }

\* No concurrent populate process is running.
NoProcs ==
  [ p \in Procs |-> [ pc |-> "off", arg |-> None, url |-> None, key |-> None,
                      found |-> FALSE, snap |-> EmptyMap, ret |-> "None",
                      wrote |-> "none" ] ]

VARIABLES
  tree,            \* the paths that exist
  links,           \* the paths that are symbolic links to a directory
  cacheDirExists,  \* the cache root directory exists
  mirrors,         \* the cache keys whose mirror directory exists
  origin,          \* mirror key -> its remote.origin.url
  indexFile,       \* directory.json: "missing", "valid" or "corrupt"
  mapping,         \* the URL -> key object of a valid directory.json
  pc,              \* "idle", "loop" or "exited"
  env,             \* the environment of the current run
  argv,            \* sys.argv[1:] of the current run
  i,               \* position of the for loop in argv
  reports,         \* what was done and logged for each processed argument
  exitCode,        \* the exit status of the last run
  dpc,             \* discoverer: "idle", "walk", "run", "wait" or "exited"
  stack,           \* discoverer: the directories os.walk has yet to yield
  repos,           \* discoverer: the repos list
  j,               \* discoverer: position of the populate loop in repos
  calls,           \* discoverer: the populator processes launched, with results
  dexit,           \* discoverer: its exit status
  denv,            \* discoverer: sys.argv[1] and whether the cache root mkdir failed
  procs            \* concurrent populate processes: each one's position and locals

fsVars == << tree, links >>

cacheVars == << cacheDirExists, mirrors, origin, indexFile, mapping >>

procVars == << pc, env, argv, i, reports, exitCode >>

discVars == << dpc, stack, repos, j, calls, dexit, denv >>

raceVars == << procs >>

vars == << fsVars, cacheVars, procVars, discVars, raceVars >>

----------------------------------------------------------------------------
(* Pure helpers of the populator.                                           *)

exists(p) == p \in tree

is_dir(p) == p \in tree /\ p \notin Files

is_local_repo(arg) ==
  is_dir(PathOf(arg)) /\ exists(Append(PathOf(arg), ".git"))

find_real_git(which) ==
  IF which # None /\ which # WrapperPath THEN which ELSE None

\* A lookup that falls back to the working copy's own path.
get_origin_url_or_path(arg) ==
  IF OriginConfig(PathOf(arg)) = None THEN arg ELSE OriginConfig(PathOf(arg))

\* git -C repo remote get-url origin: the URL on exit status 0, else None.
get_origin_url(arg) == OriginConfig(PathOf(arg))

\* A key taken from the host of the URL alone.
compute_cache_key_host(url) == "example.com"

\* hashlib.sha256(url.encode()).hexdigest()
compute_cache_key(url) ==
  CASE url = U1 -> "3f71ca0a9a455fa908a2efa64f43dd6bf7ed6d77de8d06bdcdef5aeaf099bf80"
    [] url = U2 -> "fce2ce11dea1f7029a10c0e356eb32bcd4391eea83ea2a8add1f7220c8497ccd"
    [] url = "/w/f" -> "c3c74af51c82dbe7a9c25a8914beb266b758d795e0176de37e89ecd7adb223d6"
    [] OTHER -> "sha256(?)"

Cmd(op, ok) == [ op |-> op, ok |-> ok ]

\* The cache as populate_cache sees and leaves it.
Cache == [ mirrors |-> mirrors, origin |-> origin,
           indexFile |-> indexFile, mapping |-> mapping ]

\* An index update that takes an entry to write for an entry in place.
entry_differs_inverted(read, url, cache_key) ==
  url \in DOMAIN read /\ read[url] = cache_key

\* mapping.get(url) != cache_key
entry_differs(read, url, cache_key) ==
  ~(url \in DOMAIN read /\ read[url] = cache_key)

\* A read that never finds an entry.
read_directory_json_empty(c) == EmptyMap

\* update_directory_json, the read: a missing or unreadable file is an
\* empty mapping.
read_directory_json(c) ==
  IF c.indexFile = "valid" THEN c.mapping ELSE EmptyMap

\* A rewrite that keeps nothing of what was read.
updated_mapping_only(read, url, cache_key) ==
  [ u \in {url} |-> cache_key ]

\* mapping[url] = cache_key
updated_mapping(read, url, cache_key) ==
  [ u \in DOMAIN read \cup {url} |-> IF u = url THEN cache_key ELSE read[u] ]

\* update_directory_json, after the read: the whole mapping is written back
\* only when the entry differs.  A failed write leaves the file as it was
\* (open failed) or truncated (the dump failed after open(..., "w")).
write_directory_json(read, c, url, cache_key, w) ==
  LET readErr == IF c.indexFile = "corrupt"
                 THEN << "Failed to read directory.json" >> ELSE << >>
  IN IF ~entry_differs(read, url, cache_key)
       THEN [ indexFile |-> c.indexFile, mapping |-> c.mapping,
              errors |-> readErr, wrote |-> "none" ]
     ELSE IF w = "ok"
       THEN [ indexFile |-> "valid",
              mapping |-> updated_mapping(read, url, cache_key),
              errors |-> readErr, wrote |-> "ok" ]
     ELSE IF w = "open_failed"
       THEN [ indexFile |-> c.indexFile, mapping |-> c.mapping,
              errors |-> readErr \o << "Failed to write directory.json" >>,
              wrote |-> w ]
     ELSE [ indexFile |-> "corrupt", mapping |-> EmptyMap,
            errors |-> readErr \o << "Failed to write directory.json" >>,
            wrote |-> w ]

\* update_directory_json in one process: the read, then the write.
update_directory_json(c, url, cache_key, w) ==
  write_directory_json(read_directory_json(c), c, url, cache_key, w)

\* A set_origin_url that leaves the remote as the clone made it.
set_origin_url_noop(org, cache_key, url, ok) == org

\* set_origin_url: git -C mirror remote set-url origin url.
set_origin_url(org, cache_key, url, ok) ==
  IF ok THEN [ org EXCEPT ![cache_key] = url ] ELSE org

SetUrlErrors(ok) ==
  IF ok THEN << >> ELSE << "Command failed" >>

\* A populate_cache that runs `git clone --mirror` whatever is on disk.
cache_mirror_exists_never(c, cache_key) == FALSE

\* cache_mirror.exists()
cache_mirror_exists(c, cache_key) == cache_key \in c.mirrors

\* The result of a populate_cache that did nothing but run cmds.
Untouched(c, cmds, errors, ret) ==
  [ mirrors |-> c.mirrors, origin |-> c.origin,
    indexFile |-> c.indexFile, mapping |-> c.mapping,
    cmds |-> cmds, errors |-> errors,
    wrote |-> "none", indexCalled |-> FALSE, ret |-> ret ]

\* A fetch branch that returns as soon as the fetch has failed.
fetch_branch_early_return(c, url, cache_key, oc) ==
  IF ~oc.vcs
    THEN Untouched(c, << Cmd("fetch", FALSE) >>,
                   << "Command failed", "Failed to update cache" >>, "False")
  ELSE LET idx == update_directory_json(c, url, cache_key, oc.write)
       IN [ mirrors |-> c.mirrors,
            origin |-> set_origin_url(c.origin, cache_key, url, oc.seturl),
            indexFile |-> idx.indexFile, mapping |-> idx.mapping,
            cmds |-> << Cmd("fetch", TRUE), Cmd("set-url", oc.seturl) >>,
            errors |-> SetUrlErrors(oc.seturl) \o idx.errors,
            wrote |-> idx.wrote, indexCalled |-> TRUE, ret |-> "True" ]

\* A fetch branch that removes the mirror whose fetch failed.
fetch_branch_purge(c, url, cache_key, oc) ==
  IF ~oc.vcs
    THEN [ mirrors |-> c.mirrors \ {cache_key},
           origin |-> [ k \in DOMAIN c.origin \ {cache_key} |-> c.origin[k] ],
           indexFile |-> c.indexFile, mapping |-> c.mapping,
           cmds |-> << Cmd("fetch", FALSE) >>,
           errors |-> << "Command failed", "Failed to update cache" >>,
           wrote |-> "none", indexCalled |-> FALSE, ret |-> "False" ]
  ELSE fetch_branch_early_return(c, url, cache_key, oc)

\* populate_cache, the mirror exists: fetch --all, set-url, index update,
\* and the fetch's status is the value returned.
fetch_branch(c, url, cache_key, oc) ==
  LET org == set_origin_url(c.origin, cache_key, url, oc.seturl)
      idx == update_directory_json(c, url, cache_key, oc.write)
  IN [ mirrors |-> c.mirrors, origin |-> org,
       indexFile |-> idx.indexFile, mapping |-> idx.mapping,
       cmds |-> << Cmd("fetch", oc.vcs), Cmd("set-url", oc.seturl) >>,
       errors |-> (IF oc.vcs THEN << >> ELSE << "Command failed" >>)
                  \o SetUrlErrors(oc.seturl) \o idx.errors
                  \o (IF oc.vcs THEN << >> ELSE << "Failed to update cache" >>),
       wrote |-> idx.wrote, indexCalled |-> TRUE,
       ret |-> IF oc.vcs THEN "True" ELSE "False" ]

\* A clone branch that updates the index whether or not the clone succeeded.
clone_branch_index_always(c, url, cache_key, source_for_clone, oc) ==
  IF oc.vcs
    THEN fetch_branch(
           [ c EXCEPT !.mirrors = c.mirrors \cup {cache_key},
                      !.origin = [ k \in DOMAIN c.origin \cup {cache_key} |->
                                     IF k = cache_key THEN source_for_clone
                                     ELSE c.origin[k] ] ],
           url, cache_key, oc)
  ELSE LET idx == update_directory_json(c, url, cache_key, oc.write)
       IN [ mirrors |-> c.mirrors, origin |-> c.origin,
            indexFile |-> idx.indexFile, mapping |-> idx.mapping,
            cmds |-> << Cmd("clone", FALSE) >>,
            errors |-> << "Command failed" >> \o idx.errors \o << "Failed to cache" >>,
            wrote |-> idx.wrote, indexCalled |-> TRUE, ret |-> "False" ]

\* populate_cache, the mirror does not exist: clone --mirror from the
\* source; only a successful clone is followed by set-url and the index
\* update.  git removes the directory of a clone that failed.
clone_branch(c, url, cache_key, source_for_clone, oc) ==
  IF oc.vcs
    THEN LET cloned == [ k \in DOMAIN c.origin \cup {cache_key} |->
                           IF k = cache_key THEN source_for_clone
                           ELSE c.origin[k] ]
             org == set_origin_url(cloned, cache_key, url, oc.seturl)
             idx == update_directory_json(c, url, cache_key, oc.write)
         IN [ mirrors |-> c.mirrors \cup {cache_key}, origin |-> org,
              indexFile |-> idx.indexFile, mapping |-> idx.mapping,
              cmds |-> << Cmd("clone", TRUE), Cmd("set-url", oc.seturl) >>,
              errors |-> SetUrlErrors(oc.seturl) \o idx.errors,
              wrote |-> idx.wrote, indexCalled |-> TRUE,
              ret |-> "True" ]
  ELSE Untouched(c, << Cmd("clone", FALSE) >>,
                 << "Command failed", "Failed to cache" >>, "False")

\* populate_cache: fetch into an existing mirror, else clone; the result
\* holds the cache afterwards, the git commands run, the errors logged and
\* the value returned.
populate_cache(c, url, cache_key, source_for_clone, oc) ==
  IF cache_mirror_exists(c, cache_key)
    THEN fetch_branch(c, url, cache_key, oc)
  ELSE clone_branch(c, url, cache_key, source_for_clone, oc)

\* An argument the loop skips with `continue`: the cache is left alone.
Skipped(c, cmds, msg) == Untouched(c, cmds, << msg >>, None)

\* One iteration of main's for loop: the classification of the argument,
\* its canonical URL and key, and the result of populate_cache.
ProcessOne(c, arg, oc) ==
  IF ~exists(PathOf(arg))
    THEN [ class |-> "nonexistent", url |-> None, key |-> None,
           res |-> Skipped(c, << >>, "Path does not exist") ]
  ELSE IF is_local_repo(arg)
    THEN LET url == get_origin_url(arg)
         IN IF url = None
              THEN [ class |-> "no_origin", url |-> None, key |-> None,
                     res |-> Skipped(c, << Cmd("get-url", FALSE) >>,
                                     "WARNING: No origin remote") ]
            ELSE [ class |-> "local", url |-> url,
                   key |-> compute_cache_key(url),
                   res |-> LET r == populate_cache(c, url,
                                      compute_cache_key(url), arg, oc)
                           IN [ r EXCEPT !.cmds =
                                  << Cmd("get-url", TRUE) >> \o r.cmds ] ]
  ELSE IF is_dir(PathOf(arg))
    THEN [ class |-> "not_repo", url |-> None, key |-> None,
           res |-> Skipped(c, << >>, "Not a git repo") ]
  ELSE [ class |-> "url", url |-> arg, key |-> compute_cache_key(arg),
         res |-> populate_cache(c, arg, compute_cache_key(arg), arg, oc) ]

----------------------------------------------------------------------------
(* The populate run.                                                        *)

Init ==
  /\ tree = AllPaths
  /\ links = SymLinks
  /\ cacheDirExists = FALSE
  /\ mirrors = {}
  /\ origin = EmptyMap
  /\ indexFile = "missing"
  /\ mapping = EmptyMap
  /\ pc = "idle"
  /\ env = NoEnv
  /\ argv = << >>
  /\ i = 1
  /\ reports = << >>
  /\ exitCode = 0
  /\ dpc = "idle"
  /\ stack = << >>
  /\ repos = << >>
  /\ j = 1
  /\ calls = << >>
  /\ dexit = 0
  /\ denv = NoEnv
  /\ procs = NoProcs

\* A start-up that does not check the binary it found.
GitUsable_unchecked(e) == TRUE

\* not (not real_git or not os.access(real_git, os.X_OK))
GitUsable(e) == find_real_git(e.which) # None /\ e.xok

\* main up to the for loop, in environment e with arguments args: find
\* git, create the cache root, check the argument count.
StartupWith(e, args) ==
  /\ pc = "idle"
  /\ env' = RunEnv(e, cacheDirExists)
  /\ argv' = args
  /\ i' = 1
  /\ reports' = << >>
  /\ IF ~GitUsable(e)
       THEN /\ pc' = "exited"
            /\ exitCode' = 1
            /\ UNCHANGED cacheDirExists
     ELSE IF ~cacheDirExists /\ ~e.mkdirOk
       THEN /\ pc' = "exited"
            /\ exitCode' = 1
            /\ UNCHANGED cacheDirExists
     ELSE IF Len(args) = 0
       THEN /\ pc' = "exited"
            /\ exitCode' = 1
            /\ cacheDirExists' = TRUE
     ELSE /\ pc' = "loop"
          /\ UNCHANGED exitCode
          /\ cacheDirExists' = TRUE
  /\ UNCHANGED << fsVars, mirrors, origin, indexFile, mapping, raceVars >>

\* populate_git_clone_cache run from the command line.
Startup ==
  /\ dpc = "idle"
  /\ pc = "idle"
  /\ \E e \in Envs, args \in ArgLists : StartupWith(e, args)
  /\ UNCHANGED discVars

\* A loop that stops at the first argument that was not populated.
loop_next_break(r) == IF r.ret = "True" THEN i + 1 ELSE Len(argv) + 1

\* `continue`, or the end of the loop body: on to the next argument.
loop_next(r) == i + 1

\* One iteration of the for loop over sys.argv[1:].
ProcessArg ==
  /\ pc = "loop"
  /\ i <= Len(argv)
  /\ \E oc \in Outcomes :
       LET p == ProcessOne(Cache, argv[i], oc)
       IN /\ mirrors' = p.res.mirrors
          /\ origin' = p.res.origin
          /\ indexFile' = p.res.indexFile
          /\ mapping' = p.res.mapping
          /\ reports' = Append(reports,
               [ arg |-> argv[i], class |-> p.class, url |-> p.url,
                 key |-> p.key, cmds |-> p.res.cmds,
                 errors |-> p.res.errors, wrote |-> p.res.wrote,
                 indexCalled |-> p.res.indexCalled, ret |-> p.res.ret ])
          /\ i' = loop_next(p.res)
  /\ UNCHANGED << fsVars, cacheDirExists, pc, env, argv, exitCode, discVars,
                  raceVars >>

\* An exit status that reflects the failures of the run.
exit_status_strict(rs) ==
  IF \E n \in 1..Len(rs) : rs[n].ret # "True" THEN 1 ELSE 0

\* main returns after the loop: the exit status is 0 whatever was logged.
exit_status(rs) == 0

\* After the loop: "Done.", the log is closed, the process exits 0.
Finish ==
  /\ pc = "loop"
  /\ i > Len(argv)
  /\ pc' = "exited"
  /\ exitCode' = exit_status(reports)
  /\ UNCHANGED << fsVars, cacheVars, env, argv, i, reports, discVars,
                  raceVars >>

\* The process is gone: its arguments, loop position and log handle go
\* with it, the cache root stays on disk.
ProcessEnd ==
  /\ pc = "exited"
  /\ dpc = "idle"
  /\ pc' = "idle"
  /\ env' = NoEnv
  /\ argv' = << >>
  /\ i' = 1
  /\ reports' = << >>
  /\ UNCHANGED << fsVars, cacheVars, exitCode, discVars, raceVars >>

Next == Startup \/ ProcessArg \/ Finish \/ ProcessEnd

Spec == Init /\ [][Next]_vars

----------------------------------------------------------------------------
(* The discoverer.                                                          *)

\* A tree that holds working copies only where discovery does not look.
TreeHidden ==
  { <<>>, <<"d">>, <<"f">>,
    <<"node_modules">>, <<"node_modules", "p">>, <<"node_modules", "p", ".git">>,
    <<"lnk">>, <<"lnk", ".git">> }

\* The trees a discovery is run on: working copies at /w/a and /w/d/b
\* beside the hidden ones, only hidden ones, and /w itself a working copy.
Trees ==
  { AllPaths \ { <<"n">>, <<"n", ".git">> },
    TreeHidden,
    TreeHidden \cup { <<".git">> } }

\* lnk is a symbolic link to a directory, or an ordinary directory.
LinkSets == { SymLinks, {} }

\* sys.argv[1] of the discoverer: absent, a directory, a file, a missing path.
RootArgs == { None, "/w", "/w/f", "/w/gone" }

RECURSIVE Perms(_)
Perms(S) ==
  IF S = {} THEN { << >> }
  ELSE UNION { { << x >> \o s : s \in Perms(S \ {x}) } : x \in S }

\* The names os.walk lists in dirs for directory p: its entries that are
\* directories, symbolic links to directories included.
DirNames(p) ==
  { c[Len(c)] : c \in { q \in tree \ Files :
                          Len(q) = Len(p) + 1 /\ SubSeq(q, 1, Len(p)) = p } }

\* A filter that does not test os.path.islink.
KeepDir_links(p, d) == d \notin { ".git", "node_modules" }

\* The filter of dirs[:]: no .git, no node_modules, no symbolic link.
KeepDir(p, d) ==
  /\ d \notin { ".git", "node_modules" }
  /\ Append(p, d) \notin links

\* An iteration that appends the repo at both tests for .git.
WalkDir_twice(p) ==
  LET dirs == DirNames(p)
      first == IF ".git" \in dirs THEN << Str(p) >> ELSE << >>
  IN [ found |-> first \o first, kept |-> { d \in dirs : KeepDir(p, d) } ]

\* One iteration of the os.walk loop at directory p: the repos appended and
\* the directories left in dirs for the descent.
WalkDir(p) ==
  LET dirs == DirNames(p)
      first == IF ".git" \in dirs THEN << Str(p) >> ELSE << >>
      kept == { d \in dirs : KeepDir(p, d) }
      second == IF ".git" \in kept THEN << Str(p) >> ELSE << >>
  IN [ found |-> first \o second, kept |-> kept ]

DInit ==
  /\ tree \in Trees
  /\ links \in LinkSets
  /\ cacheDirExists = FALSE
  /\ mirrors = {}
  /\ origin = EmptyMap
  /\ indexFile = "missing"
  /\ mapping = EmptyMap
  /\ pc = "idle"
  /\ env = NoEnv
  /\ argv = << >>
  /\ i = 1
  /\ reports = << >>
  /\ exitCode = 0
  /\ dpc = "idle"
  /\ stack = << >>
  /\ repos = << >>
  /\ j = 1
  /\ calls = << >>
  /\ dexit = 0
  /\ denv = NoEnv
  /\ procs = NoProcs

\* main of the discoverer up to the walk: the argument, the root directory,
\* the log file in the cache root.
DStart ==
  /\ dpc = "idle"
  /\ pc = "idle"
  /\ \E a \in RootArgs, mkdirOk \in BOOLEAN :
       IF a = None \/ ~is_dir(PathOf(a))
         THEN /\ dpc' = "exited"
              /\ dexit' = 1
              /\ denv' = [ root |-> a, mkdirFailed |-> FALSE ]
              /\ UNCHANGED << stack, cacheDirExists >>
       ELSE IF ~cacheDirExists /\ ~mkdirOk
         THEN /\ dpc' = "exited"
              /\ dexit' = 1
              /\ denv' = [ root |-> a, mkdirFailed |-> TRUE ]
              /\ UNCHANGED << stack, cacheDirExists >>
       ELSE /\ dpc' = "walk"
            /\ stack' = << PathOf(a) >>
            /\ cacheDirExists' = TRUE
            /\ denv' = [ root |-> a, mkdirFailed |-> FALSE ]
            /\ UNCHANGED dexit
  /\ UNCHANGED << fsVars, mirrors, origin, indexFile, mapping, procVars,
                  repos, j, calls, raceVars >>

\* One iteration of `for root, dirs, files in os.walk(root_dir)`: the
\* directory on top of the stack is yielded, and the directories the loop
\* body leaves in dirs are descended into next, in listing order.
DWalk ==
  /\ dpc = "walk"
  /\ stack # << >>
  /\ LET w == WalkDir(Head(stack))
     IN /\ repos' = repos \o w.found
        /\ \E order \in Perms(w.kept) :
             stack' = [ k \in 1..Len(order) |-> Append(Head(stack), order[k]) ]
                      \o Tail(stack)
  /\ UNCHANGED << fsVars, cacheVars, procVars, dpc, j, calls, dexit, denv,
                  raceVars >>

\* A test that lets an empty repos list through.
no_repos_ignored(rs) == FALSE

\* not repos
no_repos(rs) == rs = << >>

\* The walk is over: no repos is an error, else the populate loop starts.
DWalkEnd ==
  /\ dpc = "walk"
  /\ stack = << >>
  /\ IF no_repos(repos)
       THEN dpc' = "exited" /\ dexit' = 1
     ELSE dpc' = "run" /\ UNCHANGED dexit
  /\ UNCHANGED << fsVars, cacheVars, procVars, stack, repos, j, calls, denv,
                  raceVars >>

\* A loop that stops at the first repo whose populator did not succeed.
loop_after_abort(result) ==
  IF result = "success" THEN j + 1 ELSE Len(repos) + 1

\* `for repo in repos`: whatever the call's result, the next repo is next.
loop_after(result) == j + 1

\* What run_populate_git_clone_cache logs for a return code.
wait_result(returncode) == IF returncode = 0 THEN "success" ELSE "failed"

\* run_populate_git_clone_cache up to process.wait(): the populator is
\* launched on repos[j], or Popen raises.
DSpawn ==
  /\ dpc = "run"
  /\ pc = "idle"
  /\ j <= Len(repos)
  /\ \E launched \in BOOLEAN, e \in Envs :
       IF launched
         THEN /\ StartupWith(e, << repos[j] >>)
              /\ calls' = Append(calls, [ repo |-> repos[j], result |-> "running" ])
              /\ dpc' = "wait"
              /\ UNCHANGED j
       ELSE /\ calls' = Append(calls, [ repo |-> repos[j], result |-> "exception" ])
            /\ j' = loop_after("exception")
            /\ UNCHANGED << fsVars, cacheVars, procVars, dpc, raceVars >>
  /\ UNCHANGED << stack, repos, dexit, denv >>

\* process.wait() returns: the return code decides the message logged.
DReap ==
  /\ dpc = "wait"
  /\ pc = "exited"
  /\ calls' = [ calls EXCEPT ![Len(calls)].result = wait_result(exitCode) ]
  /\ j' = loop_after(wait_result(exitCode))
  /\ dpc' = "run"
  /\ pc' = "idle"
  /\ env' = NoEnv
  /\ argv' = << >>
  /\ i' = 1
  /\ reports' = << >>
  /\ UNCHANGED << fsVars, cacheVars, exitCode, stack, repos, dexit, denv,
                  raceVars >>

\* After the populate loop: "Done.", exit 0.
DFinish ==
  /\ dpc = "run"
  /\ j > Len(repos)
  /\ dpc' = "exited"
  /\ dexit' = 0
  /\ UNCHANGED << fsVars, cacheVars, procVars, stack, repos, j, calls, denv,
                  raceVars >>

DNext ==
  \/ DStart \/ DWalk \/ DWalkEnd \/ DSpawn \/ ProcessArg \/ Finish
  \/ DReap \/ DFinish

DiscoverSpec == DInit /\ [][DNext]_vars

----------------------------------------------------------------------------
(* Two populate processes on one cache root.  Nothing in populate_cache or  *)
(* update_directory_json takes a lock, so the test for the mirror, the git  *)
(* commands, the read of directory.json and its write are separate steps of *)
(* each process, interleaved in any order.                                  *)

\* The working copies the two processes are given: one of U1, one of U2.
RaceRefs == { "/w/a", "/w/d/b" }

RaceInit ==
  /\ tree = AllPaths
  /\ links = SymLinks
  /\ cacheDirExists = TRUE
  /\ mirrors = {}
  /\ origin = EmptyMap
  /\ indexFile = "missing"
  /\ mapping = EmptyMap
  /\ pc = "idle"
  /\ env = NoEnv
  /\ argv = << >>
  /\ i = 1
  /\ reports = << >>
  /\ exitCode = 0
  /\ dpc = "idle"
  /\ stack = << >>
  /\ repos = << >>
  /\ j = 1
  /\ calls = << >>
  /\ dexit = 0
  /\ denv = NoEnv
  /\ procs \in [ Procs -> { [ NoProcs[1] EXCEPT !.pc = "start", !.arg = a ] :
                              a \in RaceRefs } ]

\* main for the argument of process p, up to the test in populate_cache:
\* the origin URL, the cache key, cache_mirror.exists().
RCheck(p) ==
  /\ procs[p].pc = "start"
  /\ LET url == get_origin_url(procs[p].arg)
         cache_key == compute_cache_key(url)
     IN procs' = [ procs EXCEPT ![p].pc = "git", ![p].url = url,
                                ![p].key = cache_key,
                                ![p].found = cache_mirror_exists(Cache, cache_key) ]
  /\ UNCHANGED << fsVars, cacheVars, procVars, discVars >>

\* The git commands of populate_cache in process p: fetch and set-url when
\* the mirror was found, else clone and, after a clone that succeeded,
\* set-url.  git clone refuses a destination that has appeared meanwhile.
RGit(p) ==
  /\ procs[p].pc = "git"
  /\ LET me == procs[p]
     IN \E vcs \in BOOLEAN, seturl \in BOOLEAN :
          IF me.found
            THEN /\ origin' = set_origin_url(origin, me.key, me.url, seturl)
                 /\ procs' = [ procs EXCEPT ![p].pc = "read",
                                 ![p].ret = IF vcs THEN "True" ELSE "False" ]
                 /\ UNCHANGED mirrors
          ELSE IF vcs /\ me.key \notin mirrors
            THEN /\ mirrors' = mirrors \cup { me.key }
                 /\ origin' = set_origin_url(
                                 [ k \in DOMAIN origin \cup { me.key } |->
                                     IF k = me.key THEN me.arg ELSE origin[k] ],
                                 me.key, me.url, seturl)
                 /\ procs' = [ procs EXCEPT ![p].pc = "read", ![p].ret = "True" ]
          ELSE /\ procs' = [ procs EXCEPT ![p].pc = "done", ![p].ret = "False" ]
               /\ UNCHANGED << mirrors, origin >>
  /\ UNCHANGED << fsVars, cacheDirExists, indexFile, mapping, procVars, discVars >>

\* update_directory_json in process p, the read: mapping is what the file
\* holds now.
RRead(p) ==
  /\ procs[p].pc = "read"
  /\ procs' = [ procs EXCEPT ![p].pc = "write",
                             ![p].snap = read_directory_json(Cache) ]
  /\ UNCHANGED << fsVars, cacheVars, procVars, discVars >>

\* update_directory_json in process p, the write: the mapping read earlier,
\* with the entry of p, replaces whatever the file holds now.
RWrite(p) ==
  /\ procs[p].pc = "write"
  /\ \E w \in WriteOutcomes :
       LET idx == write_directory_json(procs[p].snap, Cache, procs[p].url,
                                       procs[p].key, w)
       IN /\ indexFile' = idx.indexFile
          /\ mapping' = idx.mapping
          /\ procs' = [ procs EXCEPT ![p].pc = "done", ![p].wrote = idx.wrote ]
  /\ UNCHANGED << fsVars, cacheDirExists, mirrors, origin, procVars, discVars >>

RaceNext == \E p \in Procs : RCheck(p) \/ RGit(p) \/ RRead(p) \/ RWrite(p)

RaceSpec == RaceInit /\ [][RaceNext]_vars

----------------------------------------------------------------------------
(* Properties.                                                              *)

Last(s) == s[Len(s)]

\* The git operations of a report.
Ops(r) == { r.cmds[n].op : n \in 1..Len(r.cmds) }

\* The git operations of a report that exited non-zero.
FailedOps(r) == { r.cmds[n].op : n \in { m \in 1..Len(r.cmds) : ~r.cmds[m].ok } }

\* The index holds the entry url -> key.
HasEntry(file, map, url, key) ==
  file = "valid" /\ url \in DOMAIN map /\ map[url] = key

\* This step is one iteration of the populate loop.
IsProcessArg == pc = "loop" /\ i <= Len(argv) /\ i' = i + 1

\* populate_cache ran for the report (the argument resolved to a URL).
Populated(r) == r.class \in { "local", "url" }

C1Step ==
  (IsProcessArg /\ Populated(Last(reports'))) =>
    LET r == Last(reports')
    IN /\ ("clone" \in Ops(r)) <=> (r.key \notin mirrors)
       /\ ("fetch" \in Ops(r)) <=> (r.key \in mirrors)
       /\ (r.key \notin mirrors /\ r.ret = "True") =>
            /\ r.key \in mirrors'
            /\ r.indexCalled
            /\ r.wrote = "ok" => HasEntry(indexFile', mapping', r.url, r.key)
       /\ (r.key \in mirrors /\ HasEntry(indexFile, mapping, r.url, r.key)) =>
            /\ r.wrote = "none"
            /\ UNCHANGED << mirrors, indexFile, mapping >>

\* C1: populate clones exactly when the mirror directory of key(u) does not
\* exist and fetches (never clones) exactly when it exists; a first
\* populate whose clone succeeds creates the mirror and, its index write
\* succeeding, the index entry; a populate that finds the mirror and the
\* entry in place fetches, writes nothing and leaves the index as it was.
C1_CreateOrUpdate == [][C1Step]_vars

\* Within one run a URL is populated twice: the first clones and writes the
\* entry, the second fetches and writes nothing.
C1_Witness ==
  /\ Len(reports) = 2
  /\ reports[1].url = reports[2].url
  /\ Populated(reports[1])
  /\ Ops(reports[1]) = { "get-url", "clone", "set-url" }
  /\ reports[1].wrote = "ok"
  /\ Ops(reports[2]) = { "get-url", "fetch", "set-url" }
  /\ reports[2].ret = "True"
  /\ reports[2].wrote = "none"
  /\ HasEntry(indexFile, mapping, reports[2].url, reports[2].key)

\* C2 as stated: once the last populate_cache returned True, the index
\* holds url -> key(url).
C2_Original ==
  (reports # << >> /\ Last(reports).ret = "True") =>
    HasEntry(indexFile, mapping, Last(reports).url, Last(reports).key)

\* C2 (amended): once the last populate_cache returned True, the index holds
\* url -> key(url), the name of the mirror directory, which exists, unless
\* the write of directory.json failed (and was logged).
C2_IndexAfterSuccess ==
  (reports # << >> /\ Last(reports).ret = "True") =>
    LET r == Last(reports)
    IN /\ r.key = compute_cache_key(r.url)
       /\ r.key \in mirrors
       /\ r.indexCalled
       /\ \/ HasEntry(indexFile, mapping, r.url, r.key)
          \/ /\ r.wrote \in { "open_failed", "dump_failed" }
             /\ "Failed to write directory.json" \in
                  { r.errors[n] : n \in 1..Len(r.errors) }

\* A successful fetch repaired an index that a failed dump had truncated.
C2_Witness ==
  /\ Len(reports) = 2
  /\ reports[1].wrote = "dump_failed"
  /\ reports[2].ret = "True"
  /\ reports[2].wrote = "ok"
  /\ "fetch" \in Ops(reports[2])
  /\ HasEntry(indexFile, mapping, reports[2].url, reports[2].key)

\* C3 as stated: whenever the clone or the fetch of a report failed, the
\* report is a failure and set-url and the index update still ran.
C3_Original ==
  \A n \in 1..Len(reports) :
    (FailedOps(reports[n]) \cap { "clone", "fetch" } # {}) =>
      /\ reports[n].ret = "False"
      /\ "set-url" \in Ops(reports[n])
      /\ reports[n].indexCalled

\* C3 (amended): a failed fetch is reported failed and is still followed by
\* set-url and the index update; a failed clone is reported failed and is
\* followed by neither.
C3_FailedVcs ==
  \A n \in 1..Len(reports) :
    LET r == reports[n]
    IN /\ "fetch" \in FailedOps(r) =>
            /\ r.ret = "False"
            /\ r.cmds[Len(r.cmds)].op = "set-url"
            /\ r.cmds[Len(r.cmds) - 1].op = "fetch"
            /\ r.indexCalled
       /\ "clone" \in FailedOps(r) =>
            /\ r.ret = "False"
            /\ "set-url" \notin Ops(r)
            /\ ~r.indexCalled
            /\ r.wrote = "none"

\* One run saw a clone fail and then a fetch fail whose index update
\* still wrote the entry.
C3_Witness ==
  /\ Len(reports) = 2
  /\ "clone" \in FailedOps(reports[1])
  /\ "fetch" \in FailedOps(reports[2])
  /\ reports[2].wrote = "ok"
  /\ HasEntry(indexFile, mapping, reports[2].url, reports[2].key)

\* C4 as stated: an argument that is a repository URL string is handled as
\* a URL reference: its URL is the string itself, keyed by key(URL), and a
\* clone or a fetch is run for it.
C4_UrlReference ==
  \A n \in 1..Len(reports) :
    IsUrlString(reports[n].arg) =>
      /\ reports[n].class = "url"
      /\ reports[n].url = reports[n].arg
      /\ reports[n].key = compute_cache_key(reports[n].arg)
      /\ Ops(reports[n]) \cap { "clone", "fetch" } # {}

\* The mirror of key k, its origin and the index entry of u are in place.
Settled(ms, org, file, map, u, k) ==
  /\ k \in ms
  /\ org[k] = u
  /\ HasEntry(file, map, u, k)

C5Step ==
  (IsProcessArg /\ Last(reports').class = "local") =>
    LET r == Last(reports')
    IN /\ r.errors = << >> =>
            /\ r.ret = "True"
            /\ Settled(mirrors', origin', indexFile', mapping', r.url, r.key)
       /\ (Settled(mirrors, origin, indexFile, mapping, r.url, r.key)
             /\ FailedOps(r) = {}) =>
            /\ r.errors = << >>
            /\ r.ret = "True"
            /\ r.wrote = "none"
            /\ UNCHANGED cacheVars

\* C5: a populate of a local working copy that logs no error leaves the
\* mirror present, the mirror's origin equal to the canonical URL and the
\* index entry url -> key(url); a populate of the same working copy that
\* starts from that state and whose git commands succeed logs no error and
\* leaves the whole cache state as it found it.
C5_Idempotent == [][C5Step]_vars

\* The same working copy populated twice in succession without error: a
\* clone, then a fetch.
C5_Witness ==
  /\ Len(reports) = 2
  /\ reports[1].arg = reports[2].arg
  /\ reports[1].class = "local" /\ reports[2].class = "local"
  /\ reports[1].errors = << >> /\ reports[2].errors = << >>
  /\ "clone" \in Ops(reports[1]) /\ "fetch" \in Ops(reports[2])
  /\ Settled(mirrors, origin, indexFile, mapping, U1, compute_cache_key(U1))

\* An argument populate_cache is run for: an existing path that is a
\* working copy with an origin, or is not a directory.
ValidRef(arg) ==
  /\ PathOf(arg) \in tree
  /\ IF PathOf(arg) \notin Files /\ Append(PathOf(arg), ".git") \in tree
       THEN OriginConfig(PathOf(arg)) # None
     ELSE PathOf(arg) \in Files

\* C6: the arguments are processed one at a time in argument order; each
\* is classified and, if valid, populated, whatever happened to the ones
\* before it; the loop can always take its next step, and a run that got
\* past start-up ends with every argument processed.
C6_Sequential ==
  /\ pc \in { "loop", "exited" } => Len(reports) = i - 1
  /\ \A n \in 1..Len(reports) :
       /\ reports[n].arg = argv[n]
       /\ (Ops(reports[n]) \cap { "clone", "fetch" } # {}) <=> ValidRef(argv[n])
  /\ (pc = "loop" /\ i <= Len(argv)) => ENABLED ProcessArg
  /\ (pc = "loop" /\ i > Len(argv)) => ENABLED Finish
  /\ (pc = "exited" /\ exitCode = 0) => Len(reports) = Len(argv)

\* A run ended after a reference that failed was followed by one that was
\* populated.
C6_Witness ==
  /\ pc = "exited"
  /\ exitCode = 0
  /\ Len(reports) = 2
  /\ reports[1].ret # "True"
  /\ reports[2].ret = "True"

\* The argument is a working copy with no origin remote.
NoOriginRepo(arg) ==
  /\ PathOf(arg) \in tree \ Files
  /\ Append(PathOf(arg), ".git") \in tree
  /\ OriginConfig(PathOf(arg)) = None

C7Step ==
  (IsProcessArg /\ NoOriginRepo(argv[i])) =>
    LET r == Last(reports')
    IN /\ r.class = "no_origin"
       /\ r.errors = << "WARNING: No origin remote" >>
       /\ Ops(r) \cap { "clone", "fetch", "set-url" } = {}
       /\ ~r.indexCalled
       /\ UNCHANGED cacheVars
       /\ pc' = "loop"
       /\ i' = i + 1

\* C7: for a working copy with no origin remote the loop logs the warning,
\* runs no clone, fetch or set-url, leaves the mirrors, their origins and
\* the index as they were, and goes on to the next argument.
C7_MissingOriginSkip == [][C7Step]_vars

\* A working copy without origin was skipped and the next argument cloned.
C7_Witness ==
  /\ Len(reports) = 2
  /\ reports[1].class = "no_origin"
  /\ reports[2].ret = "True"
  /\ "clone" \in Ops(reports[2])

\* The run found a git binary it can execute.
EnvGitUsable(e) == e.real_git # None /\ e.xok

C8Step ==
  /\ (pc = "idle" /\ pc' # "idle" /\ ~EnvGitUsable(env')) =>
       /\ pc' = "exited"
       /\ exitCode' = 1
       /\ reports' = << >>
       /\ UNCHANGED cacheVars
  /\ (pc # "idle" /\ ~EnvGitUsable(env)) =>
       /\ pc = "exited"
       /\ reports' = << >>
       /\ UNCHANGED cacheVars

\* C8: a run whose git binary is not found or not executable exits 1 at
\* start-up: no argument is processed, no command is run, and the cache
\* root, the mirrors, their origins and the index stay as they were.
C8_NoGitAborts == [][C8Step]_vars

\* A run with arguments and a populated cache exited 1 for want of git.
C8_Witness ==
  /\ pc = "exited"
  /\ exitCode = 1
  /\ env.real_git = None
  /\ Len(argv) = 2
  /\ mirrors # {}
  /\ indexFile = "valid"

Hidden(p) ==
  \E n \in 1..Len(p) :
    \/ p[n] \in { ".git", "node_modules" }
    \/ SubSeq(p, 1, n) \in links

\* The working copies of the tree.
WorkingCopies == { p \in tree \ Files : Append(p, ".git") \in tree }

\* C10: a working copy below the root that lies inside a node_modules
\* directory, inside a .git directory, or behind a symbolic link is never
\* in repos, and no populator is launched for it.
C10_DiscoveryExclusion ==
  \A p \in WorkingCopies :
    Hidden(p) =>
      /\ \A n \in 1..Len(repos) : repos[n] # Str(p)
      /\ \A n \in 1..Len(calls) : calls[n].repo # Str(p)
      /\ \A n \in 1..Len(argv) : argv[n] # Str(p)

\* A discovery over a tree with working copies in node_modules, in .git and
\* behind a link ended after populating the working copies it found.
C10_Witness ==
  /\ dpc = "exited"
  /\ dexit = 0
  /\ links # {}
  /\ { <<"node_modules", "p">>, <<"a", ".git", "m">>, <<"lnk">> } \subseteq WorkingCopies
  /\ Len(calls) = 2
  /\ \A n \in 1..Len(calls) : calls[n].result = "success"

\* C11: the discoverer launches the populator once for each repo of repos,
\* in the order of repos, each time with that repo as the only argument; a
\* populator that exits non-zero or cannot be launched moves the loop to the
\* next repo, so at exit 0 every repo has had its call, and while the loop
\* runs a next step is always possible.
C11_EveryRepoOnce ==
  /\ Len(calls) <= Len(repos)
  /\ \A n \in 1..Len(calls) : calls[n].repo = repos[n]
  /\ dpc = "run" =>
       /\ Len(calls) = j - 1
       /\ \A n \in 1..Len(calls) : calls[n].result # "running"
       /\ pc = "idle"
  /\ dpc = "wait" =>
       /\ Len(calls) = j
       /\ Last(calls).result = "running"
       /\ argv = << repos[j] >>
  /\ (dpc = "exited" /\ dexit = 0) => Len(calls) = Len(repos)
  /\ dpc \in { "run", "wait" } => ENABLED DNext

\* A discovery of three repos ended with exit 0 although the populator of
\* the first exited non-zero and the populator of the second could not be
\* launched; the third was populated.
C11_Witness ==
  /\ dpc = "exited"
  /\ dexit = 0
  /\ Len(calls) = 3
  /\ calls[1].result = "failed"
  /\ calls[2].result = "exception"
  /\ calls[3].result = "success"

\* The working copies discovery can reach from the root.
VisibleRepos == { p \in WorkingCopies : ~Hidden(p) }

\* The discoverer ended with exit 1 and no populator launched.
ExitedEarly == dexit = 1 /\ calls = << >> /\ pc = "idle" /\ argv = << >>

\* The discoverer ended with exit 0 after one call per discovered repo.
ExitedAfterAll ==
  /\ dexit = 0
  /\ Len(calls) = Len(repos)
  /\ Len(repos) = Cardinality(VisibleRepos)
  /\ \A n \in 1..Len(calls) : calls[n].repo = repos[n]

Wrote(p) == procs[p].pc = "done" /\ procs[p].wrote = "ok"

\* The index holds the entry of process p.
Holds(p) == HasEntry(indexFile, mapping, procs[p].url, procs[p].key)

\* C13: nothing serialises the index update of two populate processes.  The
\* entry a process wrote is missing from the index afterwards only when the
\* other process wrote after it from a mapping read before that write (or
\* truncated the file in a failed write); the entry of the process that
\* wrote last is always there.
C13_LostUpdate ==
  \A p \in Procs : \A q \in Procs \ {p} :
    /\ (Wrote(p) /\ ~Holds(p)) =>
         /\ procs[q].pc = "done"
         /\ procs[q].wrote \in { "ok", "dump_failed" }
         /\ procs[q].wrote = "ok" => procs[p].url \notin DOMAIN procs[q].snap
    /\ (Wrote(p) /\ Wrote(q)) => (Holds(p) \/ Holds(q))

\* Both processes cloned their repo, of different URLs, and wrote the index
\* without error, and the index holds one entry: an update is lost.
C13_Witness ==
  /\ \A p \in Procs : Wrote(p) /\ procs[p].ret = "True"
  /\ procs[1].url # procs[2].url
  /\ { procs[1].key, procs[2].key } \subseteq mirrors
  /\ indexFile = "valid"
  /\ Cardinality(DOMAIN mapping) = 1

C14Step ==
  /\ mirrors \subseteq mirrors'
  /\ mirrors' # mirrors =>
       /\ IsProcessArg
       /\ LET r == Last(reports')
          IN /\ Populated(r)
             /\ r.key \notin mirrors
             /\ mirrors' = mirrors \cup { r.key }
             /\ "clone" \in Ops(r) \ FailedOps(r)
  /\ (IsProcessArg /\ "fetch" \in Ops(Last(reports'))) =>
       /\ Last(reports').key \in mirrors
       /\ mirrors' = mirrors

\* C14: no step removes a mirror directory; a mirror directory appears only
\* in a populate step whose clone succeeded, for that step's key, and a step
\* that fetches acts on a mirror that exists and leaves the set of mirrors
\* as it was.
C14_MirrorMonotonic == [][C14Step]_vars

\* A fetch into a mirror failed and the mirror is still there.
C14_Witness ==
  \E n \in 1..Len(reports) :
    /\ "fetch" \in FailedOps(reports[n])
    /\ reports[n].key \in mirrors

\* C15: whenever populate_cache returned True for a local working copy, the
\* origin of the mirror is the URL the working copy's origin resolved to,
\* not the path of the working copy.
C15_CanonicalOrigin ==
  \A n \in 1..Len(reports) :
    (reports[n].class = "local" /\ reports[n].ret = "True") =>
      /\ origin[reports[n].key] = reports[n].url
      /\ origin[reports[n].key] # reports[n].arg

\* The entries of the index other than url's are, after the step, what they
\* were before it.
OthersPreserved(url) ==
  /\ indexFile' = "valid"
  /\ DOMAIN mapping' = DOMAIN mapping \cup { url }
  /\ \A u \in DOMAIN mapping \ { url } : mapping'[u] = mapping[u]

C16OriginalStep ==
  (IsProcessArg /\ Last(reports').indexCalled) =>
    LET r == Last(reports')
    IN IF HasEntry(indexFile, mapping, r.url, r.key)
         THEN r.wrote = "none" /\ UNCHANGED << indexFile, mapping >>
       ELSE /\ HasEntry(indexFile', mapping', r.url, r.key)
            /\ OthersPreserved(r.url)

\* C16 as stated: an index update for an entry already present writes
\* nothing; any other update sets the entry and preserves every other one.
C16_Original == [][C16OriginalStep]_vars

C16Step ==
  (IsProcessArg /\ Last(reports').indexCalled) =>
    LET r == Last(reports')
    IN IF HasEntry(indexFile, mapping, r.url, r.key)
         THEN r.wrote = "none" /\ UNCHANGED << indexFile, mapping >>
       ELSE CASE r.wrote = "ok" ->
                   /\ HasEntry(indexFile', mapping', r.url, r.key)
                   /\ OthersPreserved(r.url)
                   /\ indexFile # "valid" => DOMAIN mapping' = { r.url }
              [] r.wrote = "open_failed" -> UNCHANGED << indexFile, mapping >>
              [] r.wrote = "dump_failed" ->
                   indexFile' = "corrupt" /\ mapping' = EmptyMap
              [] OTHER -> FALSE

\* C16: an index update for an entry already present writes nothing.  Any
\* other update rewrites the whole file: a write that succeeds leaves the
\* entries that were read (none when the file was missing or unreadable)
\* with url set to the key; a write that fails leaves the file as it was
\* when it could not be opened, and truncated, with every entry gone, when
\* the dump failed.
C16_IndexFrame == [][C16Step]_vars

\* The index holds two entries, the second written by an update that kept
\* the first.
C16_Witness ==
  /\ indexFile = "valid"
  /\ Cardinality(DOMAIN mapping) = 2
  /\ reports # << >>
  /\ Last(reports).wrote = "ok"
  /\ \E u \in DOMAIN mapping : u # Last(reports).url

\* A populator with a failed clone or fetch is reaped.
FailedRunReaped ==
  /\ dpc = "wait" /\ pc = "exited" /\ dpc' = "run"
  /\ \E n \in 1..Len(reports) : reports[n].ret = "False"

C17Step ==
  FailedRunReaped => (exitCode # 0 /\ Last(calls').result = "failed")

\* C17: when the populator launched for a repo has a clone or fetch that
\* failed, it exits non-zero and the discoverer records the call as failed,
\* not as a success.
C17_FailureReported == [][C17Step]_vars

\* os.walk has yielded every directory it descends into.
WalkOver ==
  \/ dpc \in { "run", "wait" }
  \/ dpc = "exited" /\ denv.root = "/w" /\ ~denv.mkdirFailed

\* Path p lies strictly above path q.
Above(p, q) == Len(p) < Len(q) /\ SubSeq(q, 1, Len(p)) = p

\* C18: repos holds only directories at or under the root that contain a
\* .git directory and are reached through no .git directory, node_modules
\* directory or symbolic link; once the walk is over it holds every such
\* directory; no directory is in it twice, and a directory precedes the
\* directories below it.
C18_DiscoveredExactly ==
  /\ \A n \in 1..Len(repos) : \E p \in VisibleRepos : repos[n] = Str(p)
  /\ WalkOver => \A p \in VisibleRepos : \E n \in 1..Len(repos) : repos[n] = Str(p)
  /\ \A m \in 1..Len(repos) : \A n \in 1..Len(repos) :
       /\ (m # n) => repos[m] # repos[n]
       /\ Above(PathOf(repos[m]), PathOf(repos[n])) => m < n
  /\ Len(repos) <= Cardinality(VisibleRepos)

\* The walk over a tree whose root is a working copy, with a working copy
\* in a directory below it and another inside node_modules, has ended: the
\* root, then the directory below it, and nothing else.
C18_Witness ==
  /\ dpc = "run"
  /\ calls = << >>
  /\ repos = << "/w", "/w/lnk" >>
  /\ <<"node_modules", "p">> \in WorkingCopies

\* The URLs the working copies of the tree have as origin.
OriginUrls == { OriginConfig(p) : p \in WorkingCopies } \ { None }

C19Step ==
  /\ \A k \in mirrors : \E u \in OriginUrls : k = compute_cache_key(u)
  /\ Cardinality(mirrors) <= Cardinality(OriginUrls)
  /\ (IsProcessArg /\ Populated(Last(reports'))) =>
       LET r == Last(reports')
       IN /\ r.url = get_origin_url(r.arg)
          /\ r.key = compute_cache_key(r.url)
          /\ \A u \in OriginUrls \ { r.url } : compute_cache_key(u) # r.key
          /\ ("fetch" \in Ops(r)) <=> (r.key \in mirrors)
          /\ mirrors' \ mirrors \subseteq { r.key }
          /\ \A k \in mirrors \ { r.key } : origin'[k] = origin[k]
          /\ indexFile' = "valid" =>
               \A u \in DOMAIN mapping' :
                 IF u = r.url THEN mapping'[u] = r.key
                 ELSE u \in DOMAIN mapping /\ mapping'[u] = mapping[u]

\* C19: the mirror a populate step works on is the one named by the key of
\* the URL its reference resolves to, whatever the reference: the step
\* fetches when that mirror exists, touches no other mirror and no other
\* index entry, and the keys of different URLs differ, so there is at most
\* one mirror per origin URL.
C19_KeyedByUrl == [][C19Step]_vars

\* The populator of a second working copy of one remote fetched into the
\* mirror that the populator of the first had cloned; there is one mirror.
C19_Witness ==
  /\ Len(calls) >= 2
  /\ \E m \in 1..(Len(calls) - 1) :
       /\ calls[m].result = "success"
       /\ calls[m].repo # Last(calls).repo
       /\ get_origin_url(calls[m].repo) = get_origin_url(Last(calls).repo)
  /\ Len(reports) = 1
  /\ reports[1].arg = Last(calls).repo
  /\ "fetch" \in Ops(reports[1])
  /\ reports[1].ret = "True"
  /\ mirrors = { reports[1].key }
  /\ HasEntry(indexFile, mapping, reports[1].url, reports[1].key)

\* C20: in a sequence of populate runs, one at a time, from an empty cache
\* root, every entry of a readable index maps a URL to the key of that URL,
\* and the mirror directory of that key exists.
C20_IndexImpliesMirror ==
  indexFile = "valid" =>
    \A u \in DOMAIN mapping :
      /\ mapping[u] = compute_cache_key(u)
      /\ mapping[u] \in mirrors

\* The index holds the entry of a mirror that exists, and the clone the
\* last step tried for another URL failed and left neither mirror nor entry.
C20_Witness ==
  /\ indexFile = "valid"
  /\ Cardinality(DOMAIN mapping) = 1
  /\ \A u \in DOMAIN mapping : mapping[u] \in mirrors
  /\ reports # << >>
  /\ "clone" \in FailedOps(Last(reports))
  /\ Last(reports).url \notin DOMAIN mapping
  /\ Last(reports).key \notin mirrors

====
